---- MODULE Spec2Model ----
(***************************************************************************)
(* Model of plotting/plot_tsp_path.py: the command that reads a TSPLIB     *)
(* style file (parse_node_data), plots a closed tour over a visiting order *)
(* (plot_tour) and saves it as output/<basename>_tour.png (main).          *)
(*                                                                         *)
(* Text is modelled character by character: a str is a sequence of         *)
(* one-character strings, so that str.split, str.startswith, str.strip,    *)
(* int(), float(), os.path.basename and os.path.splitext are computed the  *)
(* way the interpreter computes them on the inputs of the model.           *)
(* Python sequences are 0-based; the sequences here are 1-based, so the    *)
(* Python index i is position i + 1.                                       *)
(***************************************************************************)
EXTENDS Integers, Sequences, FiniteSets, TLC

VARIABLES
    argv,         \* sys.argv, script name included
    pc,           \* position of the interpreter in main / the callees
    node_file,    \* main: sys.argv[1]
    indices,      \* main: the evaluated visiting order (a list)
    lines,        \* parse_node_data: file.readlines()
    opened,       \* whether open(file_path) has succeeded in this run
    handle,       \* whether the file object of the with-block is open
    start_index,  \* parse_node_data: start_index
    pos,          \* parse_node_data: position of the second for-loop
    table,        \* parse_node_data: the local dict nodes
    nodes,        \* main: <<>> while unbound, <<dict>> once bound
    k,            \* plot_tour: position of the for-loop over indices
    tour_x,       \* plot_tour: tour_x
    tour_y,       \* plot_tour: tour_y
    plotted,      \* the (xs, ys) handed to plt.plot, <<>> before
    images,       \* the image files written by this run
    stdout,       \* what print() has written
    exc,          \* the uncaught exception, <<>> when there is none
    exit_code     \* <<>> while running, <<c>> once the process has ended

vars == <<argv, pc, node_file, indices, lines, opened, handle, start_index,
          pos, table, nodes, k, tour_x, tour_y, plotted, images, stdout,
          exc, exit_code>>

----------------------------------------------------------------------------
(* Bounds and vocabularies of the inputs.                                  *)

\* Largest number of lines of an input file.
MaxLines == 3

\* start_index = None
None == -1

Marker == <<"N","O","D","E","_","C","O","O","R","D","_",
            "S","E","C","T","I","O","N">>

\* The lines an input file is made of (readlines keeps the newline).
L_marker   == Marker \o <<"\n">>
L_indented == <<" ">> \o Marker \o <<"\n">>
L_prefixed == Marker \o <<"S","\n">>
L_node1    == <<"1"," ","0",".","0"," ","0",".","0","\n">>
L_node2    == <<"2"," ","1","0",".","0"," "," ","-",".","5"," ","7","\n">>
L_node1b   == <<"0","1","\t","2",".","5","0"," ","1",".","\n">>
L_eof      == <<"E","O","F","\n">>
L_two      == <<"1"," ","2","\n">>
L_badid    == <<"1",".","0"," ","0",".","0"," ","0",".","0","\n">>
L_header   == <<"N","A","M","E"," ",":"," ","t","\n">>
L_bady     == <<"2"," ","0",".","0"," ","x","\n">>

LineVocab == {L_marker, L_indented, L_prefixed, L_node1, L_node2, L_node1b,
              L_eof, L_two, L_badid, L_header, L_bady}

RECURSIVE SeqsUpTo(_, _)
SeqsUpTo(S, n) ==
    IF n = 0 THEN {<<>>}
    ELSE LET shorter == SeqsUpTo(S, n - 1)
         IN  shorter \cup {Append(s, x) : s \in {t \in shorter : Len(t) = n - 1},
                                           x \in S}

Files == SeqsUpTo(LineVocab, MaxLines)

\* sys.argv[1]
P_plain  == <<"d","/","a",".","t","s","p">>
P_dotdir == <<"x",".","y","/","b">>
P_hidden == <<".","t","s","p">>
PathVocab == {P_plain, P_dotdir, P_hidden}

\* sys.argv[2]
LiteralVocab == {"[1, 2]", "[1, 4]", "[]", "[1", "foo", "(1, 2)", "7", "{[1]: 2}"}

Script == "plot_tsp_path.py"

\* Every literal with one path, every path with one literal, and the
\* shorter argument vectors.
ArgvVocab ==
    {<<Script>>, <<Script, P_plain>>}
    \cup {<<Script, P_plain, l>> : l \in LiteralVocab}
    \cup {<<Script, p, "[1, 2]">> : p \in PathVocab}

----------------------------------------------------------------------------
(* str methods and the numeric constructors, character by character.       *)

\* str.isspace for the characters of the model
IsSpace(c) == c \in {" ", "\t", "\n"}

IsDigit(c) == c \in {"0", "1", "2", "3", "4", "5", "6", "7", "8", "9"}

DigitVal(c) ==
    CASE c = "0" -> 0 [] c = "1" -> 1 [] c = "2" -> 2 [] c = "3" -> 3
      [] c = "4" -> 4 [] c = "5" -> 5 [] c = "6" -> 6 [] c = "7" -> 7
      [] c = "8" -> 8 [] c = "9" -> 9

\* line.split(): the maximal runs of non-whitespace characters
RECURSIVE SplitFrom(_, _, _, _)
SplitFrom(s, i, cur, acc) ==
    IF i > Len(s)
    THEN IF cur = <<>> THEN acc ELSE Append(acc, cur)
    ELSE IF IsSpace(s[i])
         THEN SplitFrom(s, i + 1, <<>>,
                        IF cur = <<>> THEN acc ELSE Append(acc, cur))
         ELSE SplitFrom(s, i + 1, Append(cur, s[i]), acc)

Split(s) == SplitFrom(s, 1, <<>>, <<>>)

\* line.startswith(prefix)
StartsWith(s, prefix) ==
    /\ Len(s) >= Len(prefix)
    /\ SubSeq(s, 1, Len(prefix)) = prefix

\* line.strip(), the trimming a marker test by equality would need
RECURSIVE LStrip(_)
LStrip(s) ==
    IF s # <<>> /\ IsSpace(s[1]) THEN LStrip(Tail(s)) ELSE s

RECURSIVE RStrip(_)
RStrip(s) ==
    IF s # <<>> /\ IsSpace(s[Len(s)])
    THEN RStrip(SubSeq(s, 1, Len(s) - 1))
    ELSE s

Strip(s) == RStrip(LStrip(s))

\* The token without its optional sign.
Unsigned(tok) ==
    IF tok # <<>> /\ tok[1] \in {"+", "-"} THEN Tail(tok) ELSE tok

Sign(tok) == IF tok # <<>> /\ tok[1] = "-" THEN -1 ELSE 1

RECURSIVE DigitsVal(_)
DigitsVal(ds) ==
    IF ds = <<>> THEN 0
    ELSE 10 * DigitsVal(SubSeq(ds, 1, Len(ds) - 1)) + DigitVal(ds[Len(ds)])

\* int(tok) does not raise ValueError: an optional sign, then digits only.
\* (Digit-group underscores are not among the characters of the model.)
IsInt(tok) ==
    LET body == Unsigned(tok)
    IN  /\ body # <<>>
        /\ \A i \in 1..Len(body) : IsDigit(body[i])

\* int(tok)
IntOf(tok) == Sign(tok) * DigitsVal(Unsigned(tok))

\* The positions of "." in a token.
Dots(body) == {i \in 1..Len(body) : body[i] = "."}

\* float(tok) does not raise ValueError: an optional sign, then digits with
\* at most one point and at least one digit.  (Exponents, inf and nan are
\* not among the tokens of the model.)
IsFloat(tok) ==
    LET body == Unsigned(tok)
    IN  /\ Cardinality(Dots(body)) <= 1
        /\ \E i \in 1..Len(body) : IsDigit(body[i])
        /\ \A i \in 1..Len(body) : IsDigit(body[i]) \/ body[i] = "."

RECURSIVE Pow10(_)
Pow10(n) == IF n = 0 THEN 1 ELSE 10 * Pow10(n - 1)

\* A decimal m / 10^e in lowest terms of ten.
RECURSIVE Normal(_, _)
Normal(m, e) ==
    IF e > 0 /\ m % 10 = 0 THEN Normal(m \div 10, e - 1) ELSE [m |-> m, e |-> e]

\* float(tok): the value m / 10^e, which identifies the double the
\* interpreter rounds to.
FloatOf(tok) ==
    LET body  == Unsigned(tok)
        point == IF Dots(body) = {} THEN Len(body) + 1
                 ELSE CHOOSE i \in Dots(body) : TRUE
        whole == SubSeq(body, 1, point - 1)
        frac  == SubSeq(body, point + 1, Len(body))
    IN  Normal(Sign(tok) * (DigitsVal(whole) * Pow10(Len(frac)) + DigitsVal(frac)),
               Len(frac))

----------------------------------------------------------------------------
(* The library calls main relies on.                                       *)

\* ast.literal_eval(sys.argv[2]) on the literals of the model: the
\* exception it raises ("" when none), else the type and items of the value.
LiteralEval(src) ==
    CASE src = "[1, 2]"    -> [raises |-> "", type |-> "list", items |-> <<1, 2>>]
      [] src = "[1, 4]"    -> [raises |-> "", type |-> "list", items |-> <<1, 4>>]
      [] src = "[]"        -> [raises |-> "", type |-> "list", items |-> <<>>]
      [] src = "(1, 2)"    -> [raises |-> "", type |-> "tuple", items |-> <<1, 2>>]
      [] src = "7"         -> [raises |-> "", type |-> "int", items |-> <<>>]
      [] src = "[1"        -> [raises |-> "SyntaxError", type |-> "", items |-> <<>>]
      [] src = "foo"       -> [raises |-> "ValueError", type |-> "", items |-> <<>>]
      [] src = "{[1]: 2}"  -> [raises |-> "TypeError", type |-> "", items |-> <<>>]

\* The positions of c in s.
Positions(s, c) == {i \in 1..Len(s) : s[i] = c}

Last(S) == CHOOSE i \in S : \A j \in S : j <= i

\* os.path.basename(path): what follows the last "/"
Basename(path) ==
    IF Positions(path, "/") = {} THEN path
    ELSE SubSeq(path, Last(Positions(path, "/")) + 1, Len(path))

\* os.path.splitext(name)[0]: the name up to its last ".", unless only
\* dots precede that "."
SplitextRoot(name) ==
    LET dots == Positions(name, ".")
    IN  IF dots # {} /\ \E i \in 1..(Last(dots) - 1) : name[i] # "."
        THEN SubSeq(name, 1, Last(dots) - 1)
        ELSE name

TourSuffix == <<"_","t","o","u","r",".","p","n","g">>

\* Variant: the extension is cut from the whole path, directories kept.
PngFilenameOfPath(path) == SplitextRoot(path) \o TourSuffix

\* f"{base_name}_tour.png"
PngFilename(path) == SplitextRoot(Basename(path)) \o TourSuffix

\* os.path.join("output", png_filename)
ImagePath(path) == [dir |-> "output", name |-> PngFilename(path)]

----------------------------------------------------------------------------
(* The pieces of parse_node_data and plot_tour.                            *)

\* Variant: line.strip() == "NODE_COORD_SECTION"
IsMarkerLineTrimmed(line) == Strip(line) = Marker

\* line.startswith("NODE_COORD_SECTION")
IsMarkerLine(line) == StartsWith(line, Marker)

\* Variant: start_index starts as 0 and not as None.
FindMarkerFromTop(ls) ==
    IF \E i \in 1..Len(ls) : IsMarkerLine(ls[i])
    THEN CHOOSE i \in 1..Len(ls) :
            /\ IsMarkerLine(ls[i])
            /\ \A j \in 1..(i - 1) : ~IsMarkerLine(ls[j])
    ELSE 0

\* The first for-loop: start_index = i + 1 at the first marker line, the
\* loop then breaks; None when no line is one.
FindMarker(ls) ==
    IF \E i \in 1..Len(ls) : IsMarkerLine(ls[i])
    THEN CHOOSE i \in 1..Len(ls) :
            /\ IsMarkerLine(ls[i])
            /\ \A j \in 1..(i - 1) : ~IsMarkerLine(ls[j])
    ELSE None

\* Variant: len(parts) == 3
IsRecordExactlyThree(parts) == Len(parts) = 3

\* len(parts) >= 3
IsRecord(parts) == Len(parts) >= 3

\* Variant: the conversions sit in a try block that passes on ValueError.
LineOutcomeSkipsBad(line) ==
    LET parts == Split(line)
    IN  IF Len(parts) >= 3 /\ IsInt(parts[1])
           /\ IsFloat(parts[2]) /\ IsFloat(parts[3])
        THEN "store"
        ELSE "skip"

\* What the body of the second for-loop does with a line: nothing, or one
\* of the conversions raises, or the entry is stored.
LineOutcome(line) ==
    LET parts == Split(line)
    IN  IF ~IsRecord(parts) THEN "skip"
        ELSE IF ~IsInt(parts[1]) THEN "int raises"
        ELSE IF ~IsFloat(parts[2]) \/ ~IsFloat(parts[3]) THEN "float raises"
        ELSE "store"

\* Variant: nodes.setdefault(node_id, (x, y))
StoreIfAbsent(tab, id, xy) ==
    [j \in DOMAIN tab \cup {id} |-> IF j \in DOMAIN tab THEN tab[j] ELSE xy]

\* nodes[node_id] = (x, y)
Store(tab, id, xy) ==
    [j \in DOMAIN tab \cup {id} |-> IF j = id THEN xy ELSE tab[j]]

\* Variant: nodes.get(i, (0.0, 0.0))
LookupWithDefault(tab, id) ==
    IF id \in DOMAIN tab THEN <<tab[id]>>
    ELSE << <<[m |-> 0, e |-> 0], [m |-> 0, e |-> 0]>> >>

\* nodes[i]: <<the pair>>, or <<>> when it raises KeyError
Lookup(tab, id) == IF id \in DOMAIN tab THEN <<tab[id]>> ELSE <<>>

\* Variant: tour.append(tour[-1])
CloseTourAtLast(tour) ==
    IF tour = <<>> THEN <<>> ELSE <<Append(tour, tour[Len(tour)])>>

\* Variant: the append is skipped when the tour is empty.
CloseTourIfAny(tour) ==
    IF tour = <<>> THEN <<tour>> ELSE <<Append(tour, tour[1])>>

\* tour.append(tour[0]): <<the list>>, or <<>> when tour[0] raises IndexError
CloseTour(tour) == IF tour = <<>> THEN <<>> ELSE <<Append(tour, tour[1])>>

\* Variant: the isinstance test is missing.
RejectedOnRaiseOnly(r) == r.raises \in {"ValueError", "SyntaxError"}

\* The except clause and the isinstance test of main.
LiteralRejected(r) ==
    \/ r.raises \in {"ValueError", "SyntaxError"}
    \/ r.raises = "" /\ r.type # "list"

UsageMessage == "usage: python plot_tsp_path.py <tsp_file> <indices>"
FormatMessage ==
    "Error: Invalid list format. Please ensure the indices are passed as a valid Python list."

NotFound == [type |-> "ValueError", msg |-> "NODE_COORD_SECTION not found in the file"]
BadInt   == [type |-> "ValueError", msg |-> "invalid literal for int() with base 10"]
BadFloat == [type |-> "ValueError", msg |-> "could not convert string to float"]
UnknownNode == [type |-> "KeyError", msg |-> "nodes[i]"]
EmptyTour   == [type |-> "IndexError", msg |-> "list index out of range"]
Unhashable  == [type |-> "TypeError", msg |-> "unhashable type: 'list'"]
NoSuchFile  == [type |-> "FileNotFoundError", msg |-> "No such file or directory"]

----------------------------------------------------------------------------
(* The run of the command.                                                 *)

Init ==
    /\ argv \in ArgvVocab
    /\ pc = "main"
    /\ node_file = <<>>
    /\ indices = <<>>
    /\ lines = <<>>
    /\ opened = FALSE
    /\ handle = FALSE
    /\ start_index = None
    /\ pos = 0
    /\ table = <<>>
    /\ nodes = <<>>
    /\ k = 0
    /\ tour_x = <<>>
    /\ tour_y = <<>>
    /\ plotted = <<>>
    /\ images = {}
    /\ stdout = <<>>
    /\ exc = <<>>
    /\ exit_code = <<>>

\* sys.exit(1) after print(msg)
ExitWith(msg) ==
    /\ stdout' = Append(stdout, msg)
    /\ exit_code' = <<1>>
    /\ pc' = "done"

\* An exception nothing catches: the with-block closes the file, the
\* interpreter prints the traceback and the process ends with status 1.
Raise(e) ==
    /\ exc' = <<e>>
    /\ exit_code' = <<1>>
    /\ handle' = FALSE
    /\ pc' = "done"

\* main: the argument count test and node_file = sys.argv[1]
CheckArgs ==
    /\ pc = "main"
    /\ IF Len(argv) < 3
       THEN /\ ExitWith(UsageMessage)
            /\ UNCHANGED node_file
       ELSE /\ node_file' = argv[2]
            /\ pc' = "literal"
            /\ UNCHANGED <<stdout, exit_code>>
    /\ UNCHANGED <<argv, indices, lines, opened, handle, start_index, pos,
                   table, nodes, k, tour_x, tour_y, plotted, images, exc>>

\* main: the try block around ast.literal_eval; an exception the except
\* clause does not name leaves main uncaught.
EvalIndices ==
    /\ pc = "literal"
    /\ LET r == LiteralEval(argv[3])
       IN  IF LiteralRejected(r)
           THEN /\ ExitWith(FormatMessage)
                /\ UNCHANGED <<indices, exc, handle>>
           ELSE IF r.raises # ""
           THEN /\ Raise(Unhashable)
                /\ UNCHANGED <<indices, stdout>>
           ELSE /\ indices' = r.items
                /\ pc' = "open"
                /\ UNCHANGED <<stdout, exit_code, exc, handle>>
    /\ UNCHANGED <<argv, node_file, lines, opened, start_index, pos,
                   table, nodes, k, tour_x, tour_y, plotted, images>>

\* parse_node_data: nodes = {}, open(file_path) and file.readlines(); the
\* file is absent, or holds any of the contents of the model.
OpenFile ==
    /\ pc = "open"
    /\ \/ /\ Raise(NoSuchFile)
          /\ UNCHANGED <<lines, opened, table>>
       \/ \E content \in Files :
            /\ lines' = content
            /\ opened' = TRUE
            /\ handle' = TRUE
            /\ table' = <<>>
            /\ pc' = "find"
            /\ UNCHANGED <<exc, exit_code>>
    /\ UNCHANGED <<argv, node_file, indices, start_index, pos, nodes, k,
                   tour_x, tour_y, plotted, images, stdout>>

\* parse_node_data: the first for-loop and the test of start_index
FindStart ==
    /\ pc = "find"
    /\ start_index' = FindMarker(lines)
    /\ IF start_index' = None
       THEN /\ Raise(NotFound)
            /\ UNCHANGED pos
       ELSE /\ pos' = start_index' + 1
            /\ pc' = "scan"
            /\ UNCHANGED <<exc, exit_code, handle>>
    /\ UNCHANGED <<argv, node_file, indices, lines, opened, table, nodes, k,
                   tour_x, tour_y, plotted, images, stdout>>

\* parse_node_data: one iteration of the second for-loop
ScanLine ==
    /\ pc = "scan"
    /\ pos <= Len(lines)
    /\ LET parts   == Split(lines[pos])
           outcome == LineOutcome(lines[pos])
       IN  CASE outcome = "skip" ->
                  /\ pos' = pos + 1
                  /\ UNCHANGED <<table, pc, exc, exit_code, handle>>
             [] outcome = "int raises" ->
                  /\ Raise(BadInt)
                  /\ UNCHANGED <<table, pos>>
             [] outcome = "float raises" ->
                  /\ Raise(BadFloat)
                  /\ UNCHANGED <<table, pos>>
             [] outcome = "store" ->
                  /\ table' = Store(table, IntOf(parts[1]),
                                    <<FloatOf(parts[2]), FloatOf(parts[3])>>)
                  /\ pos' = pos + 1
                  /\ UNCHANGED <<pc, exc, exit_code, handle>>
    /\ UNCHANGED <<argv, node_file, indices, lines, opened, start_index,
                   nodes, k, tour_x, tour_y, plotted, images, stdout>>

\* parse_node_data returns: the with-block closes the file and main binds
\* nodes; plot_tour starts with empty tour_x and tour_y.
ReturnNodes ==
    /\ pc = "scan"
    /\ pos > Len(lines)
    /\ handle' = FALSE
    /\ nodes' = <<table>>
    /\ k' = 1
    /\ tour_x' = <<>>
    /\ tour_y' = <<>>
    /\ pc' = "plot"
    /\ UNCHANGED <<argv, node_file, indices, lines, opened, start_index, pos,
                   table, plotted, images, stdout, exc, exit_code>>

\* plot_tour: one iteration of the for-loop over indices
PlotPoint ==
    /\ pc = "plot"
    /\ k <= Len(indices)
    /\ LET found == Lookup(nodes[1], indices[k])
       IN  IF found = <<>>
           THEN /\ Raise(UnknownNode)
                /\ UNCHANGED <<k, tour_x, tour_y>>
           ELSE /\ tour_x' = Append(tour_x, found[1][1])
                /\ tour_y' = Append(tour_y, found[1][2])
                /\ k' = k + 1
                /\ UNCHANGED <<pc, exc, exit_code, handle>>
    /\ UNCHANGED <<argv, node_file, indices, lines, opened, start_index, pos,
                   table, nodes, plotted, images, stdout>>

\* plot_tour: the two appends that close the loop, then plt.figure and
\* plt.plot(tour_x, tour_y, ...)
ClosePath ==
    /\ pc = "plot"
    /\ k > Len(indices)
    /\ LET cx == CloseTour(tour_x)
           cy == CloseTour(tour_y)
       IN  IF cx = <<>>
           THEN /\ Raise(EmptyTour)
                /\ UNCHANGED <<tour_x, tour_y, plotted>>
           ELSE /\ tour_x' = cx[1]
                /\ tour_y' = cy[1]
                /\ plotted' = <<[x |-> cx[1], y |-> cy[1]]>>
                /\ pc' = "save"
                /\ UNCHANGED <<exc, exit_code, handle>>
    /\ UNCHANGED <<argv, node_file, indices, lines, opened, start_index, pos,
                   table, nodes, k, images, stdout>>

\* main: plt.savefig(os.path.join("output", png_filename)); the directory
\* output exists or it does not.
SaveFigure ==
    /\ pc = "save"
    /\ \E writable \in BOOLEAN :
         IF writable
         THEN /\ images' = images \cup {ImagePath(node_file)}
              /\ exit_code' = <<0>>
              /\ pc' = "done"
              /\ UNCHANGED <<exc, handle>>
         ELSE /\ Raise(NoSuchFile)
              /\ UNCHANGED images
    /\ UNCHANGED <<argv, node_file, indices, lines, opened, start_index, pos,
                   table, nodes, k, tour_x, tour_y, plotted, stdout>>

Next ==
    \/ CheckArgs
    \/ EvalIndices
    \/ OpenFile
    \/ FindStart
    \/ ScanLine
    \/ ReturnNodes
    \/ PlotPoint
    \/ ClosePath
    \/ SaveFigure

Spec == Init /\ [][Next]_vars

----------------------------------------------------------------------------
(* Vocabulary of the properties, stated on the text of the file and not    *)
(* through the operators the actions use.                                  *)

\* The lines that begin with the literal NODE_COORD_SECTION.
PrefixLines(ls) == {i \in 1..Len(ls) : StartsWith(ls[i], Marker)}

\* The lines whose content, trimmed, is the literal NODE_COORD_SECTION.
TrimmedLines(ls) == {i \in 1..Len(ls) : Strip(ls[i]) = Marker}

First(S) == CHOOSE i \in S : \A j \in S : i <= j

\* A line with fewer than three tokens.
ShortLine(line) == Len(Split(line)) < 3

\* A line with three or more tokens, an integer and two floats in front.
CoordLine(line) ==
    LET parts == Split(line)
    IN  /\ Len(parts) >= 3
        /\ IsInt(parts[1])
        /\ IsFloat(parts[2])
        /\ IsFloat(parts[3])

\* A line with three or more tokens that is not a coordinate line.
BadLine(line) == ~ShortLine(line) /\ ~CoordLine(line)

IdOf(line) == IntOf(Split(line)[1])
XYOf(line) == <<FloatOf(Split(line)[2]), FloatOf(Split(line)[3])>>

\* The coordinate lines after line m.
CoordsAfter(ls, m) == {j \in (m + 1)..Len(ls) : CoordLine(ls[j])}

\* Every line after line m is a coordinate line or a short line.
CleanAfter(ls, m) ==
    \A j \in (m + 1)..Len(ls) : CoordLine(ls[j]) \/ ShortLine(ls[j])

DistinctIds(ls, J) ==
    \A i \in J : \A j \in J : i # j => IdOf(ls[i]) # IdOf(ls[j])

\* parse_node_data has been called and has ended, by return or by raise.
ParseOver == opened /\ pc \notin {"find", "scan"}

\* The table has exactly one entry per line of J, each line's own.
OneEntryPerLine(tab, ls, J) ==
    /\ Cardinality(DOMAIN tab) = Cardinality(J)
    /\ \A j \in J : /\ IdOf(ls[j]) \in DOMAIN tab
                    /\ tab[IdOf(ls[j])] = XYOf(ls[j])

\* C1: when the marker line (the first line the loader recognises, one that
\* starts with NODE_COORD_SECTION, see C8) is followed by N coordinate lines
\* with pairwise distinct identifiers, interleaved with any lines of fewer
\* than three tokens, parse_node_data returns a table of exactly N entries,
\* keyed by the parsed identifiers, each mapped to the (x, y) of its own
\* line; the short lines add no entry and raise nothing.
C1_NEntries ==
    (ParseOver /\ PrefixLines(lines) # {}
       /\ CleanAfter(lines, First(PrefixLines(lines)))
       /\ DistinctIds(lines, CoordsAfter(lines, First(PrefixLines(lines)))))
    => /\ nodes # <<>>
       /\ exc \notin {<<NotFound>>, <<BadInt>>, <<BadFloat>>}
       /\ OneEntryPerLine(nodes[1], lines,
                          CoordsAfter(lines, First(PrefixLines(lines))))

\* A table was returned for a file with a short line and then a four-token
\* coordinate line after the marker, holding that line's entry.
C1_Witness ==
    /\ ParseOver
    /\ nodes # <<>>
    /\ PrefixLines(lines) # {}
    /\ Cardinality(DOMAIN nodes[1]) = 1
    /\ \E j \in (First(PrefixLines(lines)) + 1)..Len(lines) : ShortLine(lines[j])
    /\ \E j \in CoordsAfter(lines, First(PrefixLines(lines))) :
          Len(Split(lines[j])) > 3

\* C2: for a file with no marker line, parse_node_data raises the
\* "NODE_COORD_SECTION not found" error and main never gets a table, not
\* even a partial one, whatever coordinate-like lines the file holds; no
\* line of the file is scanned and nothing is plotted or written.
C2_NoMarkerFails ==
    (opened /\ pc # "find" /\ PrefixLines(lines) = {})
    => /\ pc = "done"
       /\ exc = <<NotFound>>
       /\ nodes = <<>>
       /\ table = <<>>
       /\ images = {}

\* The run has failed on a file without marker that holds a coordinate line.
C2_Witness ==
    /\ pc = "done"
    /\ exc = <<NotFound>>
    /\ PrefixLines(lines) = {}
    /\ \E j \in 1..Len(lines) : CoordLine(lines[j])

\* The first bad line after line m.
FirstBadAfter(ls, m) == First({j \in (m + 1)..Len(ls) : BadLine(ls[j])})

\* C3: when a line after the marker has three or more tokens and its first
\* token is no integer or its second or third no float, parse_node_data
\* raises the conversion error at the first such line: the loop never
\* moves past it, no table is returned and nothing is plotted or written.
C3_BadLineAborts ==
    (opened /\ pc # "find" /\ PrefixLines(lines) # {}
       /\ \E j \in (First(PrefixLines(lines)) + 1)..Len(lines) : BadLine(lines[j]))
    => LET bad == FirstBadAfter(lines, First(PrefixLines(lines)))
       IN  /\ pc \in {"scan", "done"}
           /\ pos <= bad
           /\ nodes = <<>>
           /\ images = {}
           /\ pc = "done" =>
                /\ pos = bad
                /\ exc = IF IsInt(Split(lines[bad])[1])
                         THEN <<BadFloat>> ELSE <<BadInt>>

\* The run has failed at a bad line whose first token is an integer and
\* which a coordinate line follows.
C3_Witness ==
    /\ pc = "done"
    /\ exc = <<BadFloat>>
    /\ BadLine(lines[pos])
    /\ pos < Len(lines)
    /\ CoordLine(lines[pos + 1])

\* The visiting order main evaluated from sys.argv[2].
GivenOrder == LiteralEval(argv[3]).items

\* plot_tour has been called with a table that holds every identifier of a
\* non-empty order.
KnownOrder ==
    /\ nodes # <<>>
    /\ indices # <<>>
    /\ \A i \in 1..Len(indices) : indices[i] \in DOMAIN nodes[1]

\* C4: for a non-empty order of length n whose identifiers are all in
\* nodes, plot_tour plots n + 1 points: point i (i <= n) is the coordinate
\* of the i-th identifier of the order, the last point is the coordinate of
\* the first identifier again, and the order itself is left as it was given.
C4_ClosedTour ==
    /\ (KnownOrder /\ pc \in {"save", "done"}) => plotted # <<>>
    /\ plotted # <<>> =>
         LET n  == Len(GivenOrder)
             xs == plotted[1].x
             ys == plotted[1].y
         IN  /\ indices = GivenOrder
             /\ Len(xs) = n + 1
             /\ Len(ys) = n + 1
             /\ \A i \in 1..n : <<xs[i], ys[i]>> = nodes[1][GivenOrder[i]]
             /\ <<xs[n + 1], ys[n + 1]>> = nodes[1][GivenOrder[1]]

\* A tour over two nodes of different coordinates has been plotted.
C4_Witness ==
    /\ plotted # <<>>
    /\ Len(indices) = 2
    /\ nodes[1][indices[1]] # nodes[1][indices[2]]

\* C5: when the order holds an identifier that is not in nodes, at any
\* position, plot_tour raises KeyError and no image file is written.
C5_UnknownIdFails ==
    (nodes # <<>> /\ \E i \in 1..Len(indices) : indices[i] \notin DOMAIN nodes[1])
    => /\ pc \in {"plot", "done"}
       /\ plotted = <<>>
       /\ images = {}
       /\ pc = "done" => exc = <<UnknownNode>> /\ exit_code = <<1>>

\* The run has failed on an unknown identifier that follows a known one.
C5_Witness ==
    /\ pc = "done"
    /\ exc = <<UnknownNode>>
    /\ k > 1
    /\ tour_x # <<>>

\* C6: with an empty order plot_tour raises IndexError, an error of
\* another type than the KeyError of an unknown identifier, and no image
\* file is written.
C6_EmptyOrderFails ==
    (nodes # <<>> /\ indices = <<>>)
    => /\ pc \in {"plot", "done"}
       /\ plotted = <<>>
       /\ images = {}
       /\ pc = "done" =>
            /\ exc = <<EmptyTour>>
            /\ exc[1].type # UnknownNode.type
            /\ exit_code = <<1>>

\* The run has failed on an empty order over a non-empty table.
C6_Witness ==
    /\ pc = "done"
    /\ exc = <<EmptyTour>>
    /\ nodes # <<>>
    /\ DOMAIN nodes[1] # {}

\* The arguments main turns down: fewer than two, or an order that is no
\* well-formed literal, or a literal that is no list.  A literal that
\* parses but has no value (a dict with an unhashable key) counts among the
\* last.
TooFewArgs   == Len(argv) < 3
Malformed    == /\ Len(argv) >= 3
                /\ LiteralEval(argv[3]).raises \in {"SyntaxError", "ValueError"}
NotAList     == /\ Len(argv) >= 3
                /\ LiteralEval(argv[3]).raises \notin {"SyntaxError", "ValueError"}
                /\ LiteralEval(argv[3]).type # "list"

\* C7: with fewer than two arguments, a malformed order literal or a
\* literal that is not a list, the command exits with code 1 and a
\* diagnostic (the message it prints, or the traceback of the TypeError a
\* literal without value raises), before the tour file is opened and before
\* any image is written.
C7_BadArgumentsExit1 ==
    (TooFewArgs \/ Malformed \/ NotAList)
    => /\ pc \in {"main", "literal", "done"}
       /\ TooFewArgs => pc # "literal"
       /\ ~opened
       /\ images = {}
       /\ pc = "done" =>
            /\ exit_code = <<1>>
            /\ IF TooFewArgs
               THEN stdout = <<UsageMessage>> /\ exc = <<>>
               ELSE IF LiteralEval(argv[3]).raises = "TypeError"
               THEN stdout = <<>> /\ exc = <<Unhashable>>
               ELSE stdout = <<FormatMessage>> /\ exc = <<>>

\* The command has exited on a literal that is well formed but no list.
C7_Witness ==
    /\ pc = "done"
    /\ NotAList
    /\ exit_code = <<1>>
    /\ stdout = <<FormatMessage>>

\* The identifiers of the coordinate lines after line m.
IdsAfter(ls, m) == {IdOf(ls[j]) : j \in CoordsAfter(ls, m)}

\* The first loop has run: start_index is decided.
MarkerDecided == opened /\ pc # "find"

\* C8 as claimed: a line is the marker exactly when its trimmed content is
\* the literal NODE_COORD_SECTION; parsing starts after the first such line
\* and the lines before it are ignored.
C8_TrimmedEquality ==
    MarkerDecided =>
       IF TrimmedLines(lines) = {}
       THEN start_index = None
       ELSE /\ start_index = First(TrimmedLines(lines))
            /\ nodes # <<>> =>
                 DOMAIN nodes[1] = IdsAfter(lines, First(TrimmedLines(lines)))

\* C8 amended: a line is recognised as the section marker exactly when its
\* text starts with the literal NODE_COORD_SECTION (no leading whitespace,
\* anything may follow); coordinate parsing starts at the line after the
\* first such line, and every line before it is ignored, including lines
\* that look like coordinate records.
C8_PrefixMarker ==
    MarkerDecided =>
       IF PrefixLines(lines) = {}
       THEN start_index = None /\ exc = <<NotFound>>
       ELSE /\ start_index = First(PrefixLines(lines))
            /\ pos > start_index
            /\ exc # <<NotFound>>
            /\ DOMAIN table \subseteq IdsAfter(lines, start_index)
            /\ nodes # <<>> => DOMAIN nodes[1] = IdsAfter(lines, start_index)

\* A table was returned for a file whose marker follows a header line of
\* three tokens and a coordinate line, neither of which left a trace.
C8_Witness ==
    /\ nodes # <<>>
    /\ start_index = 3
    /\ \E j \in 1..2 : BadLine(lines[j])
    /\ \E j \in 1..2 : CoordLine(lines[j]) /\ IdOf(lines[j]) \notin DOMAIN nodes[1]

\* The name of the file without its directories.
FileName(path) ==
    LET slashes == {i \in 1..Len(path) : path[i] = "/"}
    IN  IF slashes = {} THEN path
        ELSE SubSeq(path, Last(slashes) + 1, Len(path))

\* stem is name without its extension: the extension is what starts at the
\* last "." of the name, a "." that leads the name starting none.
IsStem(stem, name) ==
    \E n \in 0..Len(name) :
       LET ext == SubSeq(name, n + 1, Len(name))
       IN  /\ stem = SubSeq(name, 1, n)
           /\ IF ext = <<>>
              THEN \A i \in 1..Len(name) :
                      name[i] = "." => \A j \in 1..(i - 1) : name[j] = "."
              ELSE /\ ext[1] = "."
                   /\ \A i \in 2..Len(ext) : ext[i] # "."
                   /\ \E j \in 1..n : stem[j] # "."

\* C9: a run ends in one of two ways: with status 0 and exactly one image,
\* output/<basename>_tour.png, basename being the name of the input file
\* without its extension, or with a failure and no image; an image exists
\* only once parse_node_data and plot_tour have both ended without error.
C9_TwoOutcomes ==
    /\ images # {} =>
         /\ pc = "done"
         /\ nodes # <<>>
         /\ plotted # <<>>
         /\ exc = <<>>
         /\ exit_code = <<0>>
    /\ pc = "done" =>
         \/ /\ exit_code = <<0>>
            /\ exc = <<>>
            /\ \E img \in images :
                 /\ images = {img}
                 /\ img.dir = "output"
                 /\ \E n \in 0..Len(img.name) :
                      /\ SubSeq(img.name, n + 1, Len(img.name)) = TourSuffix
                      /\ IsStem(SubSeq(img.name, 1, n), FileName(argv[2]))
         \/ /\ exit_code = <<1>>
            /\ images = {}
    /\ pc # "done" => exit_code = <<>>

\* The run has written the image of a file given with a directory and an
\* extension.
C9_Witness ==
    /\ pc = "done"
    /\ images # {}
    /\ FileName(node_file) # node_file
    /\ ~IsStem(FileName(node_file), FileName(node_file))

\* The last coordinate line after line m that carries identifier id.
LastWith(ls, m, id) ==
    Last({j \in CoordsAfter(ls, m) : IdOf(ls[j]) = id})

\* C10: when several records of the coordinate section carry the same
\* identifier, parse_node_data does not fail: the table has one entry per
\* distinct identifier, mapped to the coordinates of the last record that
\* carries it, so it can have fewer entries than there are coordinate lines.
C10_LastRecordWins ==
    (ParseOver /\ PrefixLines(lines) # {}
       /\ CleanAfter(lines, First(PrefixLines(lines))))
    => LET m == First(PrefixLines(lines))
       IN  /\ nodes # <<>>
           /\ DOMAIN nodes[1] = IdsAfter(lines, m)
           /\ \A id \in IdsAfter(lines, m) :
                 nodes[1][id] = XYOf(lines[LastWith(lines, m, id)])

\* A table was returned that has fewer entries than the section has
\* coordinate lines, two of them carrying one identifier with different
\* coordinates.
C10_Witness ==
    /\ nodes # <<>>
    /\ PrefixLines(lines) # {}
    /\ LET J == CoordsAfter(lines, First(PrefixLines(lines)))
       IN  /\ Cardinality(DOMAIN nodes[1]) < Cardinality(J)
           /\ \E i \in J : \E j \in J :
                 /\ i < j
                 /\ IdOf(lines[i]) = IdOf(lines[j])
                 /\ XYOf(lines[i]) # XYOf(lines[j])
                 /\ nodes[1][IdOf(lines[j])] = XYOf(lines[j])

====
